---- MODULE Spec2Model ----
(***************************************************************************)
(* A model of swrc (src/src/index.ts): a stale-while-revalidate cache.     *)
(*                                                                         *)
(* The state is one Handle (its cache Map and its evictor), the wall clock *)
(* in whole seconds, the loader invocations (each one the Promise that     *)
(* startLoading/startRevalidating stores in the cache entry), the pending  *)
(* setTimeout timers, the lookups that await a load, the outcome of the    *)
(* lookup that the latest step completed (if it completed one), how many   *)
(* of the keys the callers have used, and for each store key the entry     *)
(* that a failed revalidation restored and no lookup has read since.       *)
(*                                                                         *)
(* JavaScript runs every callback to completion, so a callback is one      *)
(* action.  Promise reactions are separate callbacks: the reaction that    *)
(* classifies a loaded entry for an awaiting lookup (index.ts:294-297,     *)
(* 339-342, 373-376) runs after the callback that stored the entry, and    *)
(* reads the clock again.  Timers are macrotasks: they fire only when no   *)
(* Promise reaction is queued.  The loader is taken to report failure by   *)
(* rejecting its Promise (an async function, as in the tests).             *)
(***************************************************************************)
EXTENDS Integers, Sequences, FiniteSets, TLC

VARIABLES now, cache, evictor, timers, counter, loads, lookups, last, used,
          restored

vars == <<now, cache, evictor, timers, counter, loads, lookups, last, used,
          restored>>

(* ---------------------------------------------------------------- bounds *)

\* The clock stops at MaxTime, the loader is invoked at most MaxLoads times,
\* and at most MaxWaiting lookups await a load at any one time.
MaxTime == 2
MaxLoads == 3
MaxWaiting == 2

\* The keys the callers use, in the order in which they first use them, and
\* the store key of each: Options.storeKey is the caller's choice, here the
\* one of the tests, (x) => x on string keys.
Keys == <<"k1", "k2", "k3">>

storeKey(key) == key

\* The cacheControl objects the loader may return; a Result may also carry
\* none at all.  A missing field is a field outside the DOMAIN.
CacheControls ==
    { [maxAge |-> 1],
      [staleWhileRevalidate |-> 1],
      [maxAge |-> 1, staleWhileRevalidate |-> 1] }

(* ----------------------------------------------------------- data model *)

\* Result<V>: value, and optionally cacheControl.
Results(v) ==
    { [value |-> v] } \cup { [value |-> v, cacheControl |-> cc] : cc \in CacheControls }

\* const { maxAge = 0, staleWhileRevalidate = 0 } = result.cacheControl ?? {}
cacheControlOf(result) ==
    IF "cacheControl" \in DOMAIN result THEN result.cacheControl ELSE <<>>

maxAgeOf(result) ==
    LET cc == cacheControlOf(result)
    IN  IF "maxAge" \in DOMAIN cc THEN cc.maxAge ELSE 0

staleWhileRevalidateOf(result) ==
    LET cc == cacheControlOf(result)
    IN  IF "staleWhileRevalidate" \in DOMAIN cc THEN cc.staleWhileRevalidate ELSE 0

\* h.cache.get(k) === undefined
Absent == [kind |-> "Absent"]

mkLoading(key, promise) ==
    [kind |-> "Loading", key |-> key, promise |-> promise]

\* createdAt: currentTimestamp() at the call
mkPresent(key, result, t) ==
    [kind |-> "Present", key |-> key, result |-> result, createdAt |-> t]

\* mkRevalidating without the stale result: the entry it builds is a Loading one.
mkRevalidating_dropsResult(cacheEntry, promise) ==
    [kind |-> "Loading", key |-> cacheEntry.key, promise |-> promise]

mkRevalidating(cacheEntry, promise) ==
    [kind |-> "Revalidating", key |-> cacheEntry.key, result |-> cacheEntry.result,
     createdAt |-> cacheEntry.createdAt, promise |-> promise]

\* h.evictor === undefined
Undefined == [kind |-> "undefined"]

\* createdAt + maxAge + staleWhileRevalidate
runAtOf(cacheEntry) ==
    cacheEntry.createdAt + maxAgeOf(cacheEntry.result)
        + staleWhileRevalidateOf(cacheEntry.result)

\* cacheEntryState with strict comparisons: an entry is Fresh only before
\* createdAt + maxAge, Stale only before createdAt + maxAge + staleWhileRevalidate.
cacheEntryState_strict(cacheEntry, t) ==
    IF t < cacheEntry.createdAt + maxAgeOf(cacheEntry.result)
    THEN "Fresh"
    ELSE IF t < cacheEntry.createdAt + maxAgeOf(cacheEntry.result)
                    + staleWhileRevalidateOf(cacheEntry.result)
         THEN "Stale"
         ELSE "Expired"

cacheEntryState(cacheEntry, t) ==
    IF t <= cacheEntry.createdAt + maxAgeOf(cacheEntry.result)
    THEN "Fresh"
    ELSE IF t <= cacheEntry.createdAt + maxAgeOf(cacheEntry.result)
                    + staleWhileRevalidateOf(cacheEntry.result)
         THEN "Stale"
         ELSE "Expired"

(* -------------------------------------------------------------- evictor *)

\* clearTimeout that cancels nothing.
clearTimeout_cancelsNothing(tm, timeoutId) == tm

\* clearTimeout(timeoutId)
clearTimeout(tm, timeoutId) == { t \in tm : t.timeoutId # timeoutId }

\* The id setTimeout returns: one that no pending timer has.
newTimeoutId(tm) ==
    CHOOSE id \in 1..(Cardinality(tm) + 1) : \A t \in tm : t.timeoutId # id

\* setTimeout(callback, (runAt - currentTimestamp()) * 1000): the callback
\* closes over keyValue and may run once the delay has passed (a delay below
\* zero is no delay).
setTimeout(tm, timeoutId, keyValue, delay, t) ==
    tm \cup { [timeoutId |-> timeoutId, keyValue |-> keyValue, due |-> t + delay] }

\* scheduleEvictor that schedules nothing.
scheduleEvictor_schedulesNothing(ev, tm, keyValue, cacheEntry, t) ==
    [evictor |-> ev, timers |-> tm]

\* scheduleEvictor(h, keyValue, cacheEntry), up to the timer callback: the
\* Handle's evictor and the pending timers after the call.
scheduleEvictor(ev, tm, keyValue, cacheEntry, t) ==
    LET runAt == runAtOf(cacheEntry)
    IN  IF ev = Undefined \/ ev.runAt > runAt
        THEN LET cleared == IF ev # Undefined THEN clearTimeout(tm, ev.timeoutId) ELSE tm
                 id == newTimeoutId(cleared)
             IN  [evictor |-> [runAt |-> runAt, timeoutId |-> id],
                  timers  |-> setTimeout(cleared, id, keyValue, runAt - t, t)]
        ELSE [evictor |-> ev, timers |-> tm]

\* deleteIfPresent without the test of the kind: the entry goes whatever it is.
deleteIfPresent_anyKind(c, keyValue) ==
    [c EXCEPT ![keyValue] = Absent]

\* if (cacheEntry && cacheEntry.kind === "Present") h.cache.delete(keyValue)
deleteIfPresent(c, keyValue) ==
    IF c[keyValue].kind = "Present" THEN [c EXCEPT ![keyValue] = Absent] ELSE c

\* presentEntries finding nothing: the timer callback never schedules the
\* next timer.
presentEntries_none(c) ==
    { [keyValue |-> k, cacheEntry |-> c[k], runAt |-> runAtOf(c[k])] :
        k \in { x \in DOMAIN c : FALSE } }

\* [...h.cache.entries()].flatMap(...): one record per Present entry.
presentEntries(c) ==
    { [keyValue |-> k, cacheEntry |-> c[k], runAt |-> runAtOf(c[k])] :
        k \in { x \in DOMAIN c : c[x].kind = "Present" } }

\* entries.sort((a, b) => b.runAt - a.runAt); const [head] = entries.
\* The comparator orders by runAt descending, so head has the largest runAt;
\* among equal runAt the Map's insertion order decides, which the model
\* leaves open.
heads(entries) ==
    { e \in entries : \A o \in entries : e.runAt >= o.runAt }

(* ----------------------------------------------------------------- state *)

\* The latest step completed no lookup.
NoLookup ==
    [key |-> "", read |-> Absent, found |-> "", promise |-> 0, status |-> "none",
     cacheEntry |-> Absent, state |-> "none"]

Init ==
    /\ now = 0
    /\ cache = [k \in { storeKey(Keys[n]) : n \in DOMAIN Keys } |-> Absent]
    /\ evictor = Undefined
    /\ timers = {}
    /\ counter = 0
    /\ loads = <<>>
    /\ lookups = <<>>
    /\ last = NoLookup
    /\ used = 0
    /\ restored = [k \in { storeKey(Keys[n]) : n \in DOMAIN Keys } |-> Absent]

\* A Promise reaction is queued: a lookup awaits a load that has settled.
reactionQueued ==
    \E i \in DOMAIN lookups : loads[lookups[i].promise].status # "pending"

\* The Promises still referenced: by a pending loader call, by an awaiting
\* lookup, or by the outcome in l.  The others are garbage.
live(ls, lks, l) ==
    { p \in DOMAIN ls :
        \/ ls[p].status = "pending"
        \/ \E i \in DOMAIN lks : lks[i].promise = p
        \/ l.promise = p }

collect(ls, lks, l) == [p \in live(ls, lks, l) |-> ls[p]]

\* The wall clock advances by one second.
Tick ==
    /\ now < MaxTime
    /\ now' = now + 1
    /\ last' = NoLookup
    /\ loads' = collect(loads, lookups, last')
    /\ UNCHANGED <<cache, evictor, timers, counter, lookups, used, restored>>

\* h.options.loader(key) called by startLoading ("Loading") or by
\* startRevalidating(cacheEntry) ("Revalidating"): the new cacheEntryPromise.
\* value is what the loader will return if it succeeds.
newLoad(key, kind, cacheEntry, value) ==
    [key |-> key, kind |-> kind, cacheEntry |-> cacheEntry, value |-> value,
     status |-> "pending", entry |-> Absent]

\* The identity of a new Promise: one that no referenced Promise has.
newPromise(ls) ==
    CHOOSE p \in 1..(Cardinality(DOMAIN ls) + 1) : p \notin DOMAIN ls

\* A lookup that read the entry `read`, in the case `found`, and whose Promise
\* is already resolved with { cacheEntry, state }.
resolvedLookup(key, read, found, cacheEntry, state) ==
    [key |-> key, read |-> read, found |-> found, promise |-> 0,
     status |-> "resolved", cacheEntry |-> cacheEntry, state |-> state]

\* A lookup that read the entry `read`, in the case `found`, and whose Promise
\* is promise.then(cacheEntry => ({ cacheEntry, state })).
awaitingLookup(key, read, found, promise) ==
    [key |-> key, read |-> read, found |-> found, promise |-> promise,
     status |-> "pending", cacheEntry |-> Absent, state |-> "none"]

\* s without its i-th element
remove(s, i) == SubSeq(s, 1, i - 1) \o SubSeq(s, i + 1, Len(s))

\* The kind and the state of the entry a lookup reads.
foundCase(cacheEntry, t) ==
    IF cacheEntry.kind \in {"Absent", "Loading"}
    THEN cacheEntry.kind
    ELSE cacheEntry.kind \o "," \o cacheEntryState(cacheEntry, t)

\* lookupCase with the Loading case lost: a lookup on a Loading entry starts
\* a load of its own.
lookupCase_noDedup(cacheEntry, t) ==
    IF cacheEntry = Absent \/ cacheEntry.kind = "Loading"
    THEN "startLoading"
    ELSE IF cacheEntryState(cacheEntry, t) = "Fresh"
    THEN "resolve"
    ELSE IF cacheEntryState(cacheEntry, t) = "Stale"
    THEN IF cacheEntry.kind = "Present" THEN "startRevalidating" ELSE "resolve"
    ELSE IF cacheEntry.kind = "Revalidating"
    THEN "mkLoading"
    ELSE "startLoading"

\* lookupCase without the test of the kind in the Stale case: every Stale
\* lookup starts a revalidation.
lookupCase_revalidateAgain(cacheEntry, t) ==
    IF cacheEntry = Absent
    THEN "startLoading"
    ELSE IF cacheEntry.kind = "Loading"
    THEN "await"
    ELSE IF cacheEntryState(cacheEntry, t) = "Fresh"
    THEN "resolve"
    ELSE IF cacheEntryState(cacheEntry, t) = "Stale"
    THEN "startRevalidating"
    ELSE IF cacheEntry.kind = "Revalidating"
    THEN "mkLoading"
    ELSE "startLoading"

\* lookupCase treating a Present entry that is Expired like one that is Stale.
lookupCase_expiredAsStale(cacheEntry, t) ==
    IF cacheEntry = Absent
    THEN "startLoading"
    ELSE IF cacheEntry.kind = "Loading"
    THEN "await"
    ELSE IF cacheEntryState(cacheEntry, t) = "Fresh"
    THEN "resolve"
    ELSE IF cacheEntry.kind = "Present"
    THEN "startRevalidating"
    ELSE IF cacheEntryState(cacheEntry, t) = "Stale"
    THEN "resolve"
    ELSE "mkLoading"

\* lookupCase starting a revalidation for a Present entry that is Fresh.
lookupCase_freshRevalidates(cacheEntry, t) ==
    IF cacheEntry = Absent
    THEN "startLoading"
    ELSE IF cacheEntry.kind = "Loading"
    THEN "await"
    ELSE IF cacheEntryState(cacheEntry, t) \in {"Fresh", "Stale"}
    THEN IF cacheEntry.kind = "Present" THEN "startRevalidating" ELSE "resolve"
    ELSE IF cacheEntry.kind = "Revalidating"
    THEN "mkLoading"
    ELSE "startLoading"

\* lookupCase without the Expired case: an entry past its expiry is returned
\* as it is.
lookupCase_servesExpired(cacheEntry, t) ==
    IF cacheEntry = Absent
    THEN "startLoading"
    ELSE IF cacheEntry.kind = "Loading"
    THEN "await"
    ELSE IF cacheEntryState(cacheEntry, t) = "Stale" /\ cacheEntry.kind = "Present"
    THEN "startRevalidating"
    ELSE "resolve"

\* lookupCase starting a load of its own for a Revalidating entry that is
\* Expired.
lookupCase_expiredRevalidatingReloads(cacheEntry, t) ==
    IF cacheEntry = Absent
    THEN "startLoading"
    ELSE IF cacheEntry.kind = "Loading"
    THEN "await"
    ELSE IF cacheEntryState(cacheEntry, t) = "Fresh"
    THEN "resolve"
    ELSE IF cacheEntryState(cacheEntry, t) = "Stale"
    THEN IF cacheEntry.kind = "Present" THEN "startRevalidating" ELSE "resolve"
    ELSE "startLoading"

\* lookupCase loading anew whatever Present entry it finds.
lookupCase_reloadsPresent(cacheEntry, t) ==
    IF cacheEntry = Absent \/ cacheEntry.kind = "Present"
    THEN "startLoading"
    ELSE IF cacheEntry.kind = "Loading"
    THEN "await"
    ELSE IF cacheEntryState(cacheEntry, t) = "Expired"
    THEN "mkLoading"
    ELSE "resolve"

\* The branch lookup takes on the entry it reads at time t:
\*   "startLoading"       return startLoading()
\*   "await"              return cacheEntry.promise.then(...)
\*   "resolve"            return Promise.resolve({ cacheEntry, state })
\*   "startRevalidating"  startRevalidating(cacheEntry), then as "resolve"
\*   "mkLoading"          h.cache.set(storeKey, mkLoading(...)), then as "await"
lookupCase(cacheEntry, t) ==
    IF cacheEntry = Absent
    THEN "startLoading"
    ELSE IF cacheEntry.kind = "Loading"
    THEN "await"
    ELSE IF cacheEntryState(cacheEntry, t) = "Fresh"
    THEN "resolve"
    ELSE IF cacheEntryState(cacheEntry, t) = "Stale"
    THEN IF cacheEntry.kind = "Present" THEN "startRevalidating" ELSE "resolve"
    ELSE IF cacheEntry.kind = "Revalidating"
    THEN "mkLoading"
    ELSE "startLoading"

\* The value the loader returns next for a key whose entry is cacheEntry: the
\* loader is taken to return, on every call, a value other than the cached one.
nextValue(cacheEntry) ==
    IF cacheEntry.kind \in {"Present", "Revalidating"}
    THEN 1 - cacheEntry.result.value
    ELSE 0

\* startLoading(): invoke the loader, store a Loading entry, await the load.
startLoading(key, cacheEntry) ==
    LET p == newPromise(loads)
    IN  /\ counter < MaxLoads
        /\ Len(lookups) < MaxWaiting
        /\ counter' = counter + 1
        /\ loads' = (p :> newLoad(key, "Loading", Absent, nextValue(cacheEntry))) @@ loads
        /\ cache' = [cache EXCEPT ![storeKey(key)] = mkLoading(key, p)]
        /\ lookups' = Append(lookups,
                             awaitingLookup(key, cacheEntry, foundCase(cacheEntry, now), p))
        /\ last' = NoLookup

\* return promise.then(cacheEntry => ({ cacheEntry, state: ... }))
await(key, cacheEntry, promise) ==
    /\ Len(lookups) < MaxWaiting
    /\ lookups' = Append(lookups,
                         awaitingLookup(key, cacheEntry, foundCase(cacheEntry, now),
                                        promise))
    /\ last' = NoLookup
    /\ UNCHANGED <<counter, loads>>

\* return Promise.resolve({ cacheEntry, state })
resolve(key, cacheEntry) ==
    /\ last' = resolvedLookup(key, cacheEntry, foundCase(cacheEntry, now),
                              cacheEntry, cacheEntryState(cacheEntry, now))
    /\ UNCHANGED lookups

\* startRevalidating(cacheEntry): invoke the loader, store a Revalidating
\* entry; the caller does not await the load.
startRevalidating(key, cacheEntry) ==
    LET p == newPromise(loads)
    IN  /\ counter < MaxLoads
        /\ counter' = counter + 1
        /\ loads' = (p :> newLoad(key, "Revalidating", cacheEntry,
                                  nextValue(cacheEntry))) @@ loads
        /\ cache' = [cache EXCEPT ![storeKey(key)] = mkRevalidating(cacheEntry, p)]

\* lookup(h, key)
Lookup(key) ==
    LET cacheEntry == cache[storeKey(key)]
        case == lookupCase(cacheEntry, now)
    IN  /\ \E n \in 1..(used + 1) :
              /\ n \in DOMAIN Keys
              /\ Keys[n] = key
              /\ used' = IF n > used THEN n ELSE used
        /\ \/ /\ case = "startLoading"
              /\ startLoading(key, cacheEntry)
           \/ /\ case = "await"
              /\ await(key, cacheEntry, cacheEntry.promise)
              /\ UNCHANGED cache
           \/ /\ case = "resolve"
              /\ resolve(key, cacheEntry)
              /\ loads' = collect(loads, lookups, last')
              /\ UNCHANGED <<cache, counter>>
           \/ /\ case = "startRevalidating"
              /\ startRevalidating(key, cacheEntry)
              /\ resolve(key, cacheEntry)
           \/ /\ case = "mkLoading"
              /\ cache' = [cache EXCEPT ![storeKey(key)] =
                              mkLoading(key, cacheEntry.promise)]
              /\ await(key, cacheEntry, cacheEntry.promise)
        /\ restored' = [restored EXCEPT ![storeKey(key)] = Absent]
        /\ UNCHANGED <<now, evictor, timers>>

\* The loader's Promise of load p fulfils with result: the .then callback of
\* startLoading / startRevalidating (the two are the same code).  Settling a
\* load and running a reaction queued for another load commute (a reaction
\* reads its own load and the clock only), so the queued reactions go first.
LoaderResolve(p, result) ==
    /\ loads[p].status = "pending"
    /\ ~reactionQueued
    /\ result.value = loads[p].value
    /\ now + maxAgeOf(result) + staleWhileRevalidateOf(result) <= MaxTime
    /\ LET key == loads[p].key
           cacheEntry == mkPresent(key, result, now)
           sched == scheduleEvictor(evictor, timers, storeKey(key), cacheEntry, now)
       IN  /\ cache' = [cache EXCEPT ![storeKey(key)] = cacheEntry]
           /\ evictor' = sched.evictor
           /\ timers' = sched.timers
           /\ loads' = collect([loads EXCEPT ![p].status = "fulfilled",
                                             ![p].entry = cacheEntry], lookups, NoLookup)
    /\ last' = NoLookup
    /\ UNCHANGED <<now, counter, lookups, used, restored>>

\* loadingFailed without the h.cache.delete: the Loading entry stays.
loadingFailed_keepsEntry(p) ==
    /\ cache' = cache
    /\ UNCHANGED <<evictor, timers, restored>>

\* cacheEntryPromise.catch(...) of startLoading
loadingFailed(p) ==
    /\ cache' = [cache EXCEPT ![storeKey(loads[p].key)] = Absent]
    /\ UNCHANGED <<evictor, timers, restored>>

\* revalidatingFailed that touches nothing: the Revalidating entry stays.
revalidatingFailed_keepsEntry(p) ==
    /\ cache' = cache
    /\ UNCHANGED <<evictor, timers, restored>>

\* cacheEntryPromise.catch(...) of startRevalidating(cacheEntry)
revalidatingFailed(p) ==
    LET key == loads[p].key
        cacheEntry == loads[p].cacheEntry
        state == cacheEntryState(cacheEntry, now)
        sched == scheduleEvictor(evictor, timers, storeKey(key), cacheEntry, now)
    IN  /\ cache' = [cache EXCEPT ![storeKey(key)] =
                        IF state = "Expired" THEN Absent ELSE cacheEntry]
        /\ restored' = [restored EXCEPT ![storeKey(key)] =
                        IF state = "Expired" THEN Absent ELSE cacheEntry]
        /\ evictor' = sched.evictor
        /\ timers' = sched.timers

\* The loader's Promise of load p rejects.
LoaderReject(p) ==
    /\ loads[p].status = "pending"
    /\ ~reactionQueued
    /\ IF loads[p].kind = "Loading" THEN loadingFailed(p) ELSE revalidatingFailed(p)
    /\ loads' = collect([loads EXCEPT ![p].status = "rejected"], lookups, NoLookup)
    /\ last' = NoLookup
    /\ UNCHANGED <<now, counter, lookups, used>>

\* settledLookup with the rejection swallowed: the lookup resolves with no
\* entry.
settledLookup_swallowsRejection(lookup, load, t) ==
    IF load.status = "fulfilled"
    THEN [lookup EXCEPT !.status = "resolved", !.cacheEntry = load.entry,
                        !.state = cacheEntryState(load.entry, t)]
    ELSE [lookup EXCEPT !.status = "resolved"]

\* The outcome of an awaiting lookup whose load has settled: on fulfilment
\* the reaction classifies the loaded entry at its own time t; a rejection
\* passes through.
settledLookup(lookup, load, t) ==
    IF load.status = "fulfilled"
    THEN [lookup EXCEPT !.status = "resolved", !.cacheEntry = load.entry,
                        !.state = cacheEntryState(load.entry, t)]
    ELSE [lookup EXCEPT !.status = "rejected"]

\* The reaction of awaiting lookup i to its settled load runs.  Reactions to
\* one Promise run in the order they were registered.
Deliver(i) ==
    LET p == lookups[i].promise
    IN  /\ loads[p].status # "pending"
        /\ \A j \in 1..(i - 1) : lookups[j].promise # p
        /\ last' = settledLookup(lookups[i], loads[p], now)
        /\ lookups' = remove(lookups, i)
        /\ loads' = collect(loads, lookups', last')
        /\ UNCHANGED <<now, cache, evictor, timers, counter, used, restored>>

\* The callback of a pending timer runs (lines 183-224).
TimerFire(timer) ==
    /\ timer \in timers
    /\ now >= timer.due
    /\ ~reactionQueued
    /\ LET deleted == deleteIfPresent(cache, timer.keyValue)
           entries == presentEntries(deleted)
           fired == timers \ {timer}
       IN  /\ cache' = deleted
           /\ IF entries = {}
              THEN /\ evictor' = Undefined
                   /\ timers' = fired
              ELSE \E head \in heads(entries) :
                     LET sched == scheduleEvictor(Undefined, fired, head.keyValue,
                                                  head.cacheEntry, now)
                     IN  /\ evictor' = sched.evictor
                         /\ timers' = sched.timers
    /\ last' = NoLookup
    /\ loads' = collect(loads, lookups, last')
    /\ UNCHANGED <<now, counter, lookups, used, restored>>

Next ==
    \/ Tick
    \/ \E n \in DOMAIN Keys : Lookup(Keys[n])
    \/ \E p \in DOMAIN loads : \E result \in Results(loads[p].value) : LoaderResolve(p, result)
    \/ \E p \in DOMAIN loads : LoaderReject(p)
    \/ \E i \in DOMAIN lookups : Deliver(i)
    \/ \E timer \in timers : TimerFire(timer)

Spec == Init /\ [][Next]_vars

\* The event loop keeps running: the clock advances, a queued Promise
\* reaction runs, a timer that is due fires.  Nothing obliges the callers to
\* look up or the loader to settle.
LiveSpec ==
    /\ Spec
    /\ WF_vars(Tick)
    /\ WF_vars(\E i \in DOMAIN lookups : Deliver(i))
    /\ WF_vars(\E timer \in timers : TimerFire(timer))

(* ---------------------------------------------------------- properties *)

storeKeys == { storeKey(Keys[n]) : n \in DOMAIN Keys }

\* The loader invocations of the given kind in flight for store key k.
pendingLoads(k, kind) ==
    { p \in DOMAIN loads :
        /\ loads[p].status = "pending"
        /\ storeKey(loads[p].key) = k
        /\ loads[p].kind = kind }

\* C1: the lookups issued for a key while it is absent or Loading share one
\* loader invocation: as long as that load is in flight it is the only load
\* of the key and the store holds the Loading entry with its Promise, and
\* when it succeeds each of them returns the one Present entry the load
\* produced.
C1_DedupInitialLoads ==
    /\ \A i \in DOMAIN lookups :
          LET l == lookups[i]
              k == storeKey(l.key)
          IN  (l.found \in {"Absent", "Loading"} /\ loads[l.promise].status = "pending")
                => /\ cache[k].kind = "Loading"
                   /\ cache[k].promise = l.promise
                   /\ pendingLoads(k, "Loading") \cup pendingLoads(k, "Revalidating")
                         = {l.promise}
    /\ (last.found \in {"Absent", "Loading"} /\ last.status = "resolved")
          => /\ last.cacheEntry = loads[last.promise].entry
             /\ last.cacheEntry.kind = "Present"
             /\ last.cacheEntry.result.value = loads[last.promise].value

\* A lookup that joined the load another lookup had started has returned.
C1_Witness ==
    /\ last.found = "Loading"
    /\ last.status = "resolved"
    /\ loads[last.promise].kind = "Loading"

\* C2: a key never has two initial loads in flight, nor two revalidations;
\* the lookup that finds a Present entry Stale starts the revalidation, and
\* a lookup that finds the Revalidating entry Stale leaves the entry and its
\* one revalidation as they are.
C2_DedupRevalidations ==
    /\ \A k \in storeKeys :
          /\ Cardinality(pendingLoads(k, "Loading")) <= 1
          /\ Cardinality(pendingLoads(k, "Revalidating")) <= 1
    /\ last.found = "Present,Stale"
          => /\ cache[storeKey(last.key)].kind = "Revalidating"
             /\ pendingLoads(storeKey(last.key), "Revalidating")
                   = {cache[storeKey(last.key)].promise}
    /\ last.found = "Revalidating,Stale"
          => /\ cache[storeKey(last.key)] = last.read
             /\ pendingLoads(storeKey(last.key), "Revalidating") = {last.read.promise}

\* A lookup has found the entry Stale while its revalidation was in flight.
C2_Witness ==
    last.found = "Revalidating,Stale"

\* C3: the step of a lookup that finds a Present entry Stale returns that
\* entry with state Stale, awaits nothing, invokes the loader once and
\* replaces the entry by a Revalidating one with the same key, result and
\* createdAt; it changes nothing else.
C3_StaleWhileRevalidate ==
    [][ last'.found = "Present,Stale" =>
          LET k == storeKey(last'.key)
          IN  /\ cache[k].kind = "Present"
              /\ last'.status = "resolved"
              /\ last'.promise = 0
              /\ last'.cacheEntry = cache[k]
              /\ last'.state = "Stale"
              /\ cache'[k].kind = "Revalidating"
              /\ cache'[k].key = cache[k].key
              /\ cache'[k].result = cache[k].result
              /\ cache'[k].createdAt = cache[k].createdAt
              /\ loads'[cache'[k].promise].status = "pending"
              /\ loads'[cache'[k].promise].kind = "Revalidating"
              /\ counter' = counter + 1
              /\ \A j \in storeKeys \ {k} : cache'[j] = cache[j]
              /\ UNCHANGED <<now, evictor, timers, lookups>> ]_vars

\* A lookup has returned a stale entry and started its revalidation.
C3_Witness ==
    /\ last.found = "Present,Stale"
    /\ last.state = "Stale"
    /\ cache[storeKey(last.key)].kind = "Revalidating"

\* C4: a lookup that finds a Present entry Expired starts a load of kind
\* Loading and the store holds its Loading entry while the load is in
\* flight; the lookup has an outcome only once that load has settled, and
\* on success the outcome is the entry that load produced, created after
\* the old entry expired and with another value.
C4_ExpiredTransition ==
    /\ \A i \in DOMAIN lookups :
          LET l == lookups[i]
          IN  l.found = "Present,Expired"
                => /\ loads[l.promise].kind = "Loading"
                   /\ loads[l.promise].status = "pending"
                         => cache[storeKey(l.key)] = mkLoading(l.key, l.promise)
    /\ last.found = "Present,Expired"
          => /\ last.promise # 0
             /\ loads[last.promise].kind = "Loading"
             /\ loads[last.promise].status # "pending"
             /\ last.status = "resolved"
                   => /\ last.cacheEntry = loads[last.promise].entry
                      /\ last.cacheEntry.kind = "Present"
                      /\ last.cacheEntry.result.value # last.read.result.value
                      /\ last.cacheEntry.createdAt > runAtOf(last.read)

\* A lookup that found an Expired entry has returned the reloaded one.
C4_Witness ==
    /\ last.found = "Present,Expired"
    /\ last.status = "resolved"

\* The result carries no cacheControl.
noCacheControl(result) == "cacheControl" \notin DOMAIN result

\* The store entry holds a Promise.
holdsPromise(cacheEntry) == cacheEntry.kind \in {"Loading", "Revalidating"}

\* C5 as stated: whenever a lookup that awaited a fresh load observes its
\* failure, the store holds no entry for the key.
C5_NoEntryWhenObserved ==
    (last.status = "rejected" /\ loads[last.promise].kind = "Loading")
        => cache[storeKey(last.key)] = Absent

\* C5: the step in which a load fails takes its entry out of the store, so
\* every Promise held by a store entry is one of a load still in flight;
\* every lookup that awaited a fresh load that failed fails; and when it
\* observes the failure the store holds no entry for the key, or an entry
\* that a lookup issued after the failure put there: never the entry of the
\* failed load.
C5_InitialFailure ==
    /\ \A k \in storeKeys :
          holdsPromise(cache[k])
            => /\ cache[k].promise \in DOMAIN loads
               /\ loads[cache[k].promise].status = "pending"
    /\ (last.promise # 0 /\ loads[last.promise].kind = "Loading"
            /\ loads[last.promise].status = "rejected")
          => /\ last.status = "rejected"
             /\ last.found \in {"Absent", "Loading", "Present,Expired"}
             /\ LET cacheEntry == cache[storeKey(last.key)]
                IN  \/ cacheEntry = Absent
                    \/ cacheEntry.kind = "Present"
                    \/ holdsPromise(cacheEntry) /\ cacheEntry.promise # last.promise

\* A lookup that joined a fresh load has observed the load's failure.
C5_Witness ==
    /\ last.status = "rejected"
    /\ last.found = "Loading"
    /\ loads[last.promise].kind = "Loading"

\* C6 as stated: a revalidation that fails while its entry is Fresh or Stale
\* puts the Present entry back unchanged, and the next lookup of the key, if
\* the entry is still Stale then, returns it with state Stale and starts
\* another revalidation.
C6_RevalidationFailureKeepsStale ==
    [][ /\ \A p \in DOMAIN loads :
              (/\ loads[p].kind = "Revalidating"
               /\ LoaderReject(p)
               /\ cacheEntryState(loads[p].cacheEntry, now) # "Expired")
                 => /\ cache'[storeKey(loads[p].key)] = loads[p].cacheEntry
                    /\ loads[p].cacheEntry.kind = "Present"
        /\ \A n \in DOMAIN Keys :
              LET k == storeKey(Keys[n])
              IN  (/\ restored[k] # Absent
                   /\ cacheEntryState(restored[k], now) = "Stale"
                   /\ Lookup(Keys[n]))
                     => /\ last'.status = "resolved"
                        /\ last'.cacheEntry = restored[k]
                        /\ last'.state = "Stale"
                        /\ cache'[k].kind = "Revalidating"
                        /\ counter' = counter + 1 ]_vars

\* The cases in which a lookup awaits a load: the key is uncached (absent or
\* Loading) or its entry is Expired.
awaitingCases == {"Absent", "Loading", "Present,Expired", "Revalidating,Expired"}

\* C7: a lookup awaits a load only when it finds the key uncached or its
\* entry Expired; a lookup that awaits a load fails exactly if that load
\* fails; a lookup that finds an entry Fresh or Stale awaits nothing and
\* succeeds, also when it starts a revalidation, and the step in which a
\* load fails completes no lookup.
C7_FailsIffLoadFails ==
    /\ \A i \in DOMAIN lookups :
          /\ lookups[i].found \in awaitingCases
          /\ lookups[i].status = "pending"
    /\ last.status # "none"
          => /\ last.promise # 0 <=> last.found \in awaitingCases
             /\ last.promise # 0
                  => /\ loads[last.promise].status # "pending"
                     /\ last.status = "rejected"
                            <=> loads[last.promise].status = "rejected"
             /\ last.promise = 0 => last.status = "resolved"

\* The lookup that started a fresh load has observed the load's failure.
C7_Witness ==
    /\ last.status = "rejected"
    /\ last.found = "Absent"

\* No loader invocation is in flight.
noPendingLoad == \A p \in DOMAIN loads : loads[p].status # "pending"

\* The store is empty and no timer is scheduled.
storeEmptyAndIdle ==
    /\ \A k \in storeKeys : cache[k] = Absent
    /\ evictor = Undefined
    /\ timers = {}

\* C8: if from some point on no lookup is issued and no load is in flight,
\* then from some point on the store is empty, no timer is pending and the
\* Handle has no evictor: every Present entry is removed in the end.
C8_EvictionLiveness ==
    (/\ <>[][~(\E n \in DOMAIN Keys : Lookup(Keys[n]))]_vars
     /\ <>[]noPendingLoad)
        => <>[]storeEmptyAndIdle

\* No load is in flight, no lookup awaits anything, the store holds two
\* Present entries that expire at different times, and the timer pending is
\* one the timer callback has scheduled (only the callback schedules a timer
\* later than the expiry of some Present entry).
C8_Witness ==
    /\ noPendingLoad
    /\ lookups = <<>>
    /\ evictor # Undefined
    /\ \E timer \in timers : timer.timeoutId = evictor.timeoutId
    /\ \E j, k \in storeKeys :
          /\ cache[j].kind = "Present"
          /\ cache[k].kind = "Present"
          /\ runAtOf(cache[j]) < runAtOf(cache[k])
          /\ runAtOf(cache[j]) < evictor.runAt

\* C9 as stated: the lookup that starts the initial load of an uncached key
\* returns state Fresh when the loader succeeds.
C9_InitialFreshness ==
    (last.found = "Absent" /\ last.status = "resolved") => last.state = "Fresh"

\* C10 as stated: an entry made from a Result without cacheControl is never
\* classified Fresh by a lookup.
C10_NeverFresh ==
    (last.status = "resolved" /\ noCacheControl(last.cacheEntry.result))
        => last.state # "Fresh"

\* C10: a Result without cacheControl has maxAge 0 and staleWhileRevalidate
\* 0; a lookup classifies an entry made from it Fresh at the timestamp the
\* entry was created and Expired at every later one, never Stale; it is never
\* revalidated, and a lookup that reads it from the store returns it only at
\* its createdAt.
C10_CacheControlDefaults ==
    /\ \A v \in {0, 1} : maxAgeOf([value |-> v]) = 0
                            /\ staleWhileRevalidateOf([value |-> v]) = 0
    /\ (last.status = "resolved" /\ noCacheControl(last.cacheEntry.result))
          => /\ now >= last.cacheEntry.createdAt
             /\ last.state = IF now = last.cacheEntry.createdAt
                             THEN "Fresh" ELSE "Expired"
             /\ last.promise = 0 => /\ last.state = "Fresh"
                                    /\ last.found = "Present,Fresh"
    /\ \A k \in storeKeys :
          cache[k].kind = "Revalidating" => ~noCacheControl(cache[k].result)
    /\ \A p \in DOMAIN loads :
          loads[p].kind = "Revalidating" => ~noCacheControl(loads[p].cacheEntry.result)

\* A lookup has read an entry without cacheControl from the store at the
\* timestamp of its creation and returned it with state Fresh.
C10_Witness ==
    /\ last.status = "resolved"
    /\ last.promise = 0
    /\ noCacheControl(last.cacheEntry.result)
    /\ last.state = "Fresh"
    /\ now = last.cacheEntry.createdAt

\* The loader invocations in flight.
inFlight(ls) == { p \in DOMAIN ls : ls[p].status = "pending" }

\* C11: the step of a lookup that finds a Present or Revalidating entry Fresh
\* returns that entry with state Fresh and awaits nothing; the store, the
\* evictor and its timer, the loader invocations in flight, the count of
\* loader invocations and the awaiting lookups are as before.
C11_FreshLookupNoSideEffect ==
    [][ last'.found \in {"Present,Fresh", "Revalidating,Fresh"} =>
          /\ last'.status = "resolved"
          /\ last'.promise = 0
          /\ last'.cacheEntry = cache[storeKey(last'.key)]
          /\ last'.state = "Fresh"
          /\ inFlight(loads') = inFlight(loads)
          /\ \A p \in inFlight(loads) : loads'[p] = loads[p]
          /\ UNCHANGED <<now, cache, evictor, timers, counter, lookups>> ]_vars

\* A lookup has returned a Fresh entry while a load was in flight and a
\* timer pending.
C11_Witness ==
    /\ last.found = "Present,Fresh"
    /\ last.status = "resolved"
    /\ last.state = "Fresh"
    /\ inFlight(loads) # {}
    /\ timers # {}

\* C12 as stated: whenever a timer is scheduled and the store holds Present
\* entries, the scheduled runAt is the least createdAt + maxAge +
\* staleWhileRevalidate among the Present entries.
C12_RunAtIsMinimum ==
    (evictor # Undefined /\ presentEntries(cache) # {})
        => /\ \A e \in presentEntries(cache) : evictor.runAt <= e.runAt
           /\ \E e \in presentEntries(cache) : evictor.runAt = e.runAt

\* C13: at most one timer is pending, and it is the one the Handle's evictor
\* records (no evictor, no timer); before the loader has ever been invoked
\* the store is empty and there is no timer; and the timer callback starts
\* from a cleared evictor: after it has run, a timer is scheduled exactly if
\* a Present entry remains, for the expiry of one of the remaining entries
\* and whatever the fired timer's runAt was.
C13_SingleTimer ==
    /\ [](/\ Cardinality(timers) <= 1
          /\ evictor = Undefined => timers = {}
          /\ evictor # Undefined
                => \E timer \in timers :
                      /\ timer.timeoutId = evictor.timeoutId
                      /\ timer.due = evictor.runAt
          /\ counter = 0
                => /\ \A k \in storeKeys : cache[k] = Absent
                   /\ evictor = Undefined)
    /\ [][ (\E timer \in timers : TimerFire(timer))
             => IF presentEntries(cache') = {}
                THEN evictor' = Undefined
                ELSE /\ evictor' # Undefined
                     /\ \E e \in presentEntries(cache') : evictor'.runAt = e.runAt ]_vars

\* The store holds two Present entries and the one pending timer belongs to
\* the entry stored later, which expires first: scheduling it has cancelled
\* the timer of the other.
C13_Witness ==
    /\ Cardinality(timers) = 1
    /\ \E j, k \in storeKeys :
          /\ cache[j].kind = "Present"
          /\ cache[k].kind = "Present"
          /\ cache[j].createdAt < cache[k].createdAt
          /\ runAtOf(cache[k]) < runAtOf(cache[j])
          /\ evictor.runAt = runAtOf(cache[k])
          /\ \E timer \in timers : timer.keyValue = k

\* The cases in which a lookup reads an entry that is Expired.
expiredCases == {"Present,Expired", "Revalidating,Expired"}

\* C14: a lookup that reads an Expired entry awaits a load, and what it
\* returns when the load succeeds is an entry created after the one it read
\* had expired, with another value; a lookup that returns the entry it read
\* from the store, awaiting nothing, returns it with state Fresh or Stale,
\* which is the entry's classification at that moment.
C14_ExpiredNeverServed ==
    /\ \A i \in DOMAIN lookups :
          lookups[i].found \in expiredCases => lookups[i].promise # 0
    /\ last.found \in expiredCases
          => /\ last.promise # 0
             /\ last.status = "resolved"
                   => /\ last.cacheEntry # last.read
                      /\ last.cacheEntry.kind = "Present"
                      /\ last.cacheEntry.result.value # last.read.result.value
                      /\ last.cacheEntry.createdAt > runAtOf(last.read)
    /\ (last.status = "resolved" /\ last.promise = 0)
          => /\ last.cacheEntry = last.read
             /\ last.state \in {"Fresh", "Stale"}
             /\ last.state = cacheEntryState(last.read, now)

\* A lookup that read an Expired entry has returned, with state Fresh, the
\* entry of the load it awaited.
C14_Witness ==
    /\ last.found \in expiredCases
    /\ last.status = "resolved"
    /\ last.state = "Fresh"
    /\ last.cacheEntry.result.value # last.read.result.value

\* C15: the step of a lookup that finds a Revalidating entry Expired puts in
\* its place the Loading entry with the same Promise, invokes no loader and
\* awaits that Promise, the revalidation still in flight; it changes nothing
\* else.  As long as the revalidation is in flight the store holds that
\* Loading entry, which is what later lookups of the key find and await; and
\* if the revalidation succeeds the lookup returns the Present entry it
\* produced.
C15_ExpiredRevalidatingBecomesLoading ==
    /\ [][ (/\ Len(lookups') = Len(lookups) + 1
            /\ lookups'[Len(lookups')].found = "Revalidating,Expired")
             => LET l == lookups'[Len(lookups')]
                    k == storeKey(l.key)
                IN  /\ cache[k].kind = "Revalidating"
                    /\ l.read = cache[k]
                    /\ l.promise = cache[k].promise
                    /\ loads[l.promise].status = "pending"
                    /\ loads[l.promise].kind = "Revalidating"
                    /\ cache'[k] = mkLoading(l.key, cache[k].promise)
                    /\ \A j \in storeKeys \ {k} : cache'[j] = cache[j]
                    /\ inFlight(loads') = inFlight(loads)
                    /\ UNCHANGED <<now, evictor, timers, counter>> ]_vars
    /\ [](/\ \A i \in DOMAIN lookups :
                LET l == lookups[i]
                IN  (l.found = "Revalidating,Expired" /\ loads[l.promise].status = "pending")
                      => cache[storeKey(l.key)] = mkLoading(cache[storeKey(l.key)].key, l.promise)
          /\ (last.found = "Revalidating,Expired" /\ last.status = "resolved")
                => /\ loads[last.promise].kind = "Revalidating"
                   /\ last.cacheEntry = loads[last.promise].entry
                   /\ last.cacheEntry.kind = "Present"
                   /\ last.cacheEntry.result.value = loads[last.promise].value)

\* A lookup that found the Loading entry left by such a lookup has returned
\* the entry the revalidation produced.
C15_Witness ==
    /\ last.found = "Loading"
    /\ last.status = "resolved"
    /\ loads[last.promise].kind = "Revalidating"

\* C16 as stated: the step in which a revalidation fails while the entry it
\* was started for is Expired removes the key from the store and leaves the
\* evictor and the pending timer as they are.
C16_NoTimerForRemovedEntry ==
    [][ \A p \in DOMAIN loads :
          (/\ loads[p].kind = "Revalidating"
           /\ LoaderReject(p)
           /\ cacheEntryState(loads[p].cacheEntry, now) = "Expired")
             => /\ cache'[storeKey(loads[p].key)] = Absent
                /\ UNCHANGED <<evictor, timers>> ]_vars

\* C17: the timer callback leaves every Loading and every Revalidating entry
\* as it is, and the whole store when the key it was scheduled for holds no
\* Present entry; so the key of every load in flight holds the entry with
\* that load's Promise until the load settles.
C17_TimerSparesLoads ==
    /\ [][ \A timer \in timers :
             TimerFire(timer)
               => /\ \A k \in storeKeys :
                        cache[k].kind # "Present" => cache'[k] = cache[k]
                  /\ cache[timer.keyValue].kind # "Present" => cache' = cache ]_vars
    /\ [](\A p \in inFlight(loads) :
             /\ holdsPromise(cache[storeKey(loads[p].key)])
             /\ cache[storeKey(loads[p].key)].promise = p)

\* The timer has fired while the entry of its key was Revalidating: the
\* entry is in the store, its revalidation in flight, and no timer is left.
C17_Witness ==
    /\ evictor = Undefined
    /\ timers = {}
    /\ \E k \in storeKeys :
          /\ cache[k].kind = "Revalidating"
          /\ cache[k].promise \in inFlight(loads)

\* C18 as stated: a timer is scheduled for the expiry of an entry of its
\* key; when it fires and the key holds a Present entry that expires later,
\* the entry of a later load, the callback leaves that entry in the store.
C18_SupersededEntryKept ==
    [][ \A timer \in timers :
          (/\ TimerFire(timer)
           /\ cache[timer.keyValue].kind = "Present"
           /\ runAtOf(cache[timer.keyValue]) > timer.due)
             => cache'[timer.keyValue] = cache[timer.keyValue] ]_vars

\* C19 as stated: every entry the timer callback removes is classified
\* Expired at that moment by cacheEntryState, the rule lookup uses.
C19_OnlyExpiredEvicted ==
    [][ (\E timer \in timers : TimerFire(timer))
          => \A k \in storeKeys :
                (cache[k].kind = "Present" /\ cache'[k] = Absent)
                  => cacheEntryState(cache[k], now) = "Expired" ]_vars

\* C20 as stated: after the timer callback has run, no timer is scheduled if
\* no Present entry remains, and otherwise one is scheduled whose runAt is
\* the least expiry among the remaining Present entries.
C20_NextTimerIsMinimum ==
    [][ (\E timer \in timers : TimerFire(timer))
          => IF presentEntries(cache') = {}
             THEN evictor' = Undefined /\ timers' = {}
             ELSE /\ evictor' # Undefined
                  /\ \A e \in presentEntries(cache') : evictor'.runAt <= e.runAt
                  /\ \E e \in presentEntries(cache') : evictor'.runAt = e.runAt ]_vars

\* The changes of kind a key's store entry goes through.
lifecycle ==
    { <<"Absent", "Loading">>, <<"Loading", "Present">>, <<"Loading", "Absent">>,
      <<"Present", "Revalidating">>, <<"Revalidating", "Present">>,
      <<"Revalidating", "Loading">>, <<"Revalidating", "Absent">>,
      <<"Present", "Loading">>, <<"Present", "Absent">> }

\* C21: every step that changes the store entry of a key changes its kind,
\* in one of these ways: absent to Loading, Present to Revalidating,
\* Revalidating to Loading and Present to Loading in a lookup of the key
\* (that finds the entry Stale in the first case, Expired in the two others);
\* Loading to Present and Revalidating to Present when a load of the key
\* succeeds (the entry is the new one, created at that moment) or, from
\* Revalidating, when the revalidation fails (the entry is the old one);
\* Loading to absent and Revalidating to absent when a load of the key
\* fails; Present to absent in the timer callback.
C21_EntryLifecycle ==
    [][ \A k \in storeKeys :
          cache'[k] # cache[k]
            => LET change == <<cache[k].kind, cache'[k].kind>>
               IN  /\ change \in lifecycle
                   /\ change[2] \in {"Loading", "Revalidating"}
                        => \E n \in DOMAIN Keys :
                              storeKey(Keys[n]) = k /\ Lookup(Keys[n])
                   /\ change = <<"Present", "Revalidating">>
                        => cacheEntryState(cache[k], now) = "Stale"
                   /\ change \in {<<"Present", "Loading">>, <<"Revalidating", "Loading">>}
                        => cacheEntryState(cache[k], now) = "Expired"
                   /\ change[2] = "Present"
                        => \E p \in inFlight(loads) :
                              /\ cache[k].promise = p
                              /\ \/ /\ \E result \in Results(loads[p].value) :
                                          LoaderResolve(p, result)
                                    /\ cache'[k].createdAt = now
                                 \/ /\ LoaderReject(p)
                                    /\ change[1] = "Revalidating"
                                    /\ cache'[k] = loads[p].cacheEntry
                   /\ change \in {<<"Loading", "Absent">>, <<"Revalidating", "Absent">>}
                        => LoaderReject(cache[k].promise)
                   /\ change = <<"Present", "Absent">>
                        => \E timer \in timers : TimerFire(timer) ]_vars

\* An entry is on its second round: the key holds a Revalidating entry whose
\* value is the one a second load of the key produced, so it was born
\* Loading, became Present, was replaced through a later load and has turned
\* Revalidating again.
C21_Witness ==
    \E k \in storeKeys :
        /\ cache[k].kind = "Revalidating"
        /\ cache[k].result.value = 1
        /\ cache[k].promise \in inFlight(loads)

\* The loader invocations in flight for store key k.
inFlightFor(k) == { p \in inFlight(loads) : storeKey(loads[p].key) = k }

\* C22: for every store key a loader invocation is in flight exactly if the
\* key's entry is Loading or Revalidating, and then it is the only one in
\* flight for the key and the one whose Promise the entry holds; so the
\* callback of a load that settles, whether it succeeds or fails, finds its
\* key holding the entry with that load's Promise, never absent or Present.
C22_LoadsLinkedToEntries ==
    /\ [](\A k \in storeKeys :
             /\ inFlightFor(k) # {} <=> holdsPromise(cache[k])
             /\ holdsPromise(cache[k]) => inFlightFor(k) = {cache[k].promise})
    /\ [][ \A p \in inFlight(loads) :
             (LoaderReject(p) \/ \E result \in Results(loads[p].value) : LoaderResolve(p, result))
               => /\ holdsPromise(cache[storeKey(loads[p].key)])
                  /\ cache[storeKey(loads[p].key)].promise = p ]_vars

\* An initial load and a revalidation are in flight, for two keys.
C22_Witness ==
    \E j, k \in storeKeys :
        /\ cache[j].kind = "Loading"
        /\ cache[k].kind = "Revalidating"
        /\ inFlightFor(j) = {cache[j].promise}
        /\ inFlightFor(k) = {cache[k].promise}
        /\ loads[cache[j].promise].kind = "Loading"
        /\ loads[cache[k].promise].kind = "Revalidating"

\* The timer the Handle's evictor records is pending.
timerPending(ev, tm) ==
    /\ ev # Undefined
    /\ \E timer \in tm : timer.timeoutId = ev.timeoutId

\* C23: whenever the store holds a Present entry a timer is pending; and
\* every step that puts a Present entry into the store, or in which the
\* timer callback runs, ends with a timer pending if a Present entry is in
\* the store then.
C23_NoOrphanedEntry ==
    /\ [](presentEntries(cache) # {} => timerPending(evictor, timers))
    /\ [][ (\/ \E k \in storeKeys : cache'[k].kind = "Present" /\ cache'[k] # cache[k]
            \/ \E timer \in timers : TimerFire(timer))
             => (presentEntries(cache') # {} => timerPending(evictor', timers')) ]_vars

\* A failed revalidation has put the old entry back while no other Present
\* entry is in the store, and a timer is pending for its key.
C23_Witness ==
    \E k \in storeKeys :
        /\ restored[k] # Absent
        /\ cache[k] = restored[k]
        /\ \A j \in storeKeys \ {k} : cache[j].kind # "Present"
        /\ timerPending(evictor, timers)
        /\ \E timer \in timers : timer.keyValue = k

====
